---- MODULE Spec2Model ----
(***************************************************************************)
(* Model of the Snake component of src/src/Snake.tsx (the enum-based       *)
(* version, lines 481-997).  One state of the model is the component       *)
(* between two host callbacks: its React state, its refs and the timeouts  *)
(* that are still pending.  One action is one host callback (a click, a    *)
(* key, a mouse-down outside the board, a timeout firing) together with    *)
(* the render and the gameRunningState effect it causes.                   *)
(***************************************************************************)
EXTENDS Integers, Sequences, FiniteSets, TLC

\* ------------------------------------------------------------------ bounds
\* Board dimensions explored: 1..MaxDim.
MaxDim == 4
\* At most MaxTicks calls of updatePlayer are explored.
MaxTicks == 5
\* At most MaxStale superseded timeouts are pending besides the latest one.
MaxStale == 1

\* ------------------------------------------------------------------ values
PlayDirection == {"Up", "Down", "Left", "Right"}

\* A key other than space: one of the four directions (arrows / WASD) or any
\* other key code.
Keys == PlayDirection \cup {"Other"}

\* An optional numeric prop: <<>> when omitted, <<v>> when given.
Given(p) == Len(p) = 1
\* JavaScript truthiness of an optional number: undefined and 0 are falsy.
Truthy(p) == Given(p) /\ p[1] # 0

\* The raw speed/growth props explored (expansionRate, foodPoints,
\* initialSpeed, speedDecreaseRate, speedFoodQuantity, minSpeed).
Profiles ==
  { [expansionRate |-> <<2>>, foodPoints |-> <<10>>, initialSpeed |-> <<200>>,
     speedDecreaseRate |-> <<2>>, speedFoodQuantity |-> <<1>>, minSpeed |-> <<170>>],
    [expansionRate |-> <<>>, foodPoints |-> <<0>>, initialSpeed |-> <<120>>,
     speedDecreaseRate |-> <<10>>, speedFoodQuantity |-> <<2>>, minSpeed |-> <<100>>] }

VARIABLES
  gameDimension,     \* prop
  profile,           \* the other props
  snake,             \* snake.current, mirrored by the player state
  foodRef,           \* foodRef.current, mirrored by the food state
  direction,         \* direction.current
  nextDirection,     \* nextDirection state
  foodBuffer,        \* foodBuffer.current
  scoreBase,         \* scoreBase.current
  score,             \* score state
  gameSpeed,         \* gameSpeed.current, an exact rational [n, d]
  speedInfo,         \* speedInfo state
  gameRunningState,  \* gameRunningState state
  gamePaused,        \* gamePaused state
  gameOver,          \* gameOver state
  gameRunning,       \* gameRunning.current
  timeoutId,         \* timeoutId.current is set (truthy)
  timers,            \* the pending timeouts
  ticks,             \* history: calls of updatePlayer so far
  last               \* history: the last callback that got past its guards

vars == <<gameDimension, profile, snake, foodRef, direction, nextDirection,
          foodBuffer, scoreBase, score, gameSpeed, speedInfo, gameRunningState,
          gamePaused, gameOver, gameRunning, timeoutId, timers, ticks, last>>

\* ---------------------------------------------------------- configuration
foodExpansion ==
  IF Truthy(profile.expansionRate) /\ profile.expansionRate[1] > 0
  THEN profile.expansionRate[1] ELSE 1

baseSpeed ==
  IF Truthy(profile.initialSpeed) /\ profile.initialSpeed[1] > 100
     /\ profile.initialSpeed[1] < 1000
  THEN profile.initialSpeed[1] ELSE 250

gameSpeedSettings ==
  [ initialSpeed |-> baseSpeed,
    speedDecreaseRate |->
      IF Truthy(profile.speedDecreaseRate) /\ profile.speedDecreaseRate[1] >= 0
         /\ profile.speedDecreaseRate[1] <= 10
      THEN profile.speedDecreaseRate[1] ELSE 1,
    speedFoodQuantity |->
      IF Truthy(profile.speedFoodQuantity) /\ profile.speedFoodQuantity[1] > 0
      THEN profile.speedFoodQuantity[1] ELSE 10,
    minSpeed |->
      IF Truthy(profile.minSpeed) /\ profile.minSpeed[1] > 0
         /\ profile.minSpeed[1] < baseSpeed
      THEN profile.minSpeed[1] ELSE 50 ]

gameFoodPoints ==
  IF Truthy(profile.foodPoints) /\ profile.foodPoints[1] > 0
  THEN profile.foodPoints[1] ELSE 1

\* ------------------------------------------------------------ pure helpers
Cell(x, y) == [x |-> x, y |-> y]

\* Cells of the board.
Board(dim) == {Cell(x, y) : x \in 0..(dim - 1), y \in 0..(dim - 1)}

\* The cells a snake occupies.
Cells(player) == {player[i] : i \in 1..Len(player)}

getInitialPlayer(dim) ==
  LET center == dim \div 2
  IN <<Cell(center, center - 1), Cell(center, center), Cell(center, center + 1)>>

\* Mutant of getNextFood: a sample is returned without the occupancy test.
getNextFoodAnyCell(player, dim) == Board(dim)

\* Mutant of getNextFood: the drawn cell is tested against the head only.
getNextFoodOffHead(player, dim) == {c \in Board(dim) : c # player[1]}

\* The cells the rejection-sampling loop can return: any board cell no
\* segment of player occupies.  The loop does not end when there is none.
getNextFood(player, dim) == {c \in Board(dim) : c \notin Cells(player)}

\* Mutant of validateDirection: only the opposite direction is rejected.
validateDirectionAllowSame(d1, d2) ==
  ~( (d1 = "Up" /\ d2 = "Down")
     \/ (d1 = "Down" /\ d2 = "Up")
     \/ (d1 = "Left" /\ d2 = "Right")
     \/ (d1 = "Right" /\ d2 = "Left") )

\* Mutant of validateDirection: only the current direction is rejected.
validateDirectionRejectsSameOnly(d1, d2) == d1 # d2

validateDirection(d1, d2) ==
  ~( d1 = d2
     \/ (d1 = "Up" /\ d2 = "Down")
     \/ (d1 = "Down" /\ d2 = "Up")
     \/ (d1 = "Left" /\ d2 = "Right")
     \/ (d1 = "Right" /\ d2 = "Left") )

\* directionUpdate of updateDirection: the key's direction, or the current
\* one for any other key.
directionUpdate(key, current) == IF key \in PlayDirection THEN key ELSE current

\* eating: the head, before it moves, is on the food cell.
Eating(player, food) == player[1].x = food.x /\ player[1].y = food.y

\* Mutant of CreditGrowth: one unit is credited whatever foodExpansion is.
CreditGrowthOne(buffer, eating) == IF eating THEN buffer + 1 ELSE buffer

\* foodBuffer after the eating credit.
CreditGrowth(buffer, eating) == IF eating THEN buffer + foodExpansion ELSE buffer

\* Mutant of Growing: the test is >= 0.
GrowingAlways(buffer) == buffer >= 0

\* The growth test after the credit.
Growing(buffer) == buffer > 0

\* Mutant of ScoreOf: the points per food are added to the count.
ScoreOfSum(sbase) == sbase + gameFoodPoints

\* The score shown for sbase foods eaten.
ScoreOf(sbase) == sbase * gameFoodPoints

\* The head moved one cell in selectedDirection.
MoveHead(head, selectedDirection) ==
  CASE selectedDirection = "Up" -> Cell(head.x, head.y - 1)
    [] selectedDirection = "Down" -> Cell(head.x, head.y + 1)
    [] selectedDirection = "Left" -> Cell(head.x - 1, head.y)
    [] selectedDirection = "Right" -> Cell(head.x + 1, head.y)
    [] OTHER -> head

\* newPlayer after the head moved in place: the other segments are untouched.
MovedPlayer(player, selectedDirection) ==
  [player EXCEPT ![1] = MoveHead(player[1], selectedDirection)]

\* Mutant of Collision: the far walls are tested with > instead of >=.
CollisionOffByOne(newPlayer, dim) ==
  \/ newPlayer[1].x < 0
  \/ newPlayer[1].x > dim
  \/ newPlayer[1].y < 0
  \/ newPlayer[1].y > dim
  \/ \E i \in 2..Len(newPlayer) :
       newPlayer[i].x = newPlayer[1].x /\ newPlayer[i].y = newPlayer[1].y

\* Mutant of Collision: the last segment, whose cell the shift would free, is
\* not tested.
CollisionSparesTail(newPlayer, dim) ==
  \/ newPlayer[1].x < 0
  \/ newPlayer[1].x >= dim
  \/ newPlayer[1].y < 0
  \/ newPlayer[1].y >= dim
  \/ \E i \in 2..(Len(newPlayer) - 1) :
       newPlayer[i].x = newPlayer[1].x /\ newPlayer[i].y = newPlayer[1].y

\* The collision test on newPlayer (head already moved).
Collision(newPlayer, dim) ==
  \/ newPlayer[1].x < 0
  \/ newPlayer[1].x >= dim
  \/ newPlayer[1].y < 0
  \/ newPlayer[1].y >= dim
  \/ \E i \in 2..Len(newPlayer) :
       newPlayer[i].x = newPlayer[1].x /\ newPlayer[i].y = newPlayer[1].y

\* Mutant of RevertHead: the moved head is kept.
RevertHeadNot(newPlayer, temp) == newPlayer

\* The collision branch: the head put back at (tempX, tempY).
RevertHead(newPlayer, temp) == [newPlayer EXCEPT ![1] = temp]

\* Mutant of ShiftBody: temp is not carried on, every segment after the head
\* gets the head's old cell.
ShiftBodyNoCarry(newPlayer, temp) ==
  [i \in 1..Len(newPlayer) |-> IF i = 1 THEN newPlayer[1] ELSE temp]

\* The shift loop: segment i takes the cell segment i-1 held before the move
\* (temp is the head's cell before the move).
ShiftBody(newPlayer, temp) ==
  [i \in 1..Len(newPlayer) |->
     IF i = 1 THEN newPlayer[1] ELSE IF i = 2 THEN temp ELSE newPlayer[i - 1]]

\* Mutant of FreedTail: the cell of the segment before the last one.
FreedTailOffByOne(newPlayer) == newPlayer[Len(newPlayer) - 1]

\* (tempX, tempY) when the shift loop ends: the cell the last segment left.
FreedTail(newPlayer) == newPlayer[Len(newPlayer)]

\* [...newPlayer, {x: tempX, y: tempY}]
AppendTail(shifted, freed) == Append(shifted, freed)

\* Rationals n/d, d > 0.
Rat(n, d) == [n |-> n, d |-> d]
RatLess(a, b) == a.n * b.d < b.n * a.d
RatEq(a, b) == a.n * b.d = b.n * a.d
RatFloor(a) == a.n \div a.d

\* Mutant of DecreasedSpeed: no floor at minSpeed.
DecreasedSpeedNoFloor(speed, settings) ==
  Rat(speed.n * (20 - settings.speedDecreaseRate), speed.d * 20)

\* The speed step: newSpeed = speed - rate / 20 * speed, floored at minSpeed.
DecreasedSpeed(speed, settings) ==
  LET newSpeed == Rat(speed.n * (20 - settings.speedDecreaseRate), speed.d * 20)
  IN IF ~RatLess(newSpeed, Rat(settings.minSpeed, 1))
     THEN newSpeed ELSE Rat(settings.minSpeed, 1)

\* Whether eating the sbase-th food changes the speed.
SpeedStep(sbase, settings) ==
  sbase > 0 /\ sbase % settings.speedFoodQuantity = 0

\* ------------------------------------------------------------------ timers
\* The pending timeouts: the one timeoutId.current names (latest), and the
\* superseded ones that were never cleared (stale).  Each carries the
\* gameOver value its playGame closure was created with.
NoTimers == [latest |-> FALSE, latestOver |-> FALSE,
             stale |-> [g \in BOOLEAN |-> 0]]

\* clearTimeout(timeoutId.current)
ClearLatest(tm) == [tm EXCEPT !.latest = FALSE, !.latestOver = FALSE]

\* timeoutId.current = setTimeout(...) by a playGame whose closure holds go.
Schedule(tm, go) ==
  [latest |-> TRUE, latestOver |-> go,
   stale |-> IF tm.latest THEN [tm.stale EXCEPT ![tm.latestOver] = @ + 1]
             ELSE tm.stale]

StaleCount(tm) == tm.stale[TRUE] + tm.stale[FALSE]
CanSchedule(tm) == tm.latest => StaleCount(tm) < MaxStale

\* ------------------------------------------------------------ updatePlayer
\* What one call of updatePlayer(selectedDirection) leaves in the refs and
\* states it writes; foodChoices are the cells getNextFood can return.
updatePlayer(selectedDirection) ==
  LET temp == snake[1]
      eating == Eating(snake, foodRef)
      buffer == CreditGrowth(foodBuffer, eating)
      newPlayer == MovedPlayer(snake, selectedDirection)
      settings == gameSpeedSettings
  IN IF Collision(newPlayer, gameDimension)
     THEN [adv |-> "collided", snake |-> RevertHead(newPlayer, temp),
           foodBuffer |-> buffer, scoreBase |-> scoreBase, score |-> score,
           foodChoices |-> {foodRef}, gameSpeed |-> gameSpeed,
           speedInfo |-> speedInfo]
     ELSE LET shifted == ShiftBody(newPlayer, temp)
              grown == AppendTail(shifted, FreedTail(newPlayer))
              sbase == scoreBase + 1
              step == SpeedStep(sbase, settings)
              speed == IF step THEN DecreasedSpeed(gameSpeed, settings)
                       ELSE gameSpeed
          IN IF Growing(buffer)
             THEN IF eating
                  THEN [adv |-> "ate", snake |-> grown,
                        foodBuffer |-> buffer - 1, scoreBase |-> sbase,
                        score |-> ScoreOf(sbase),
                        foodChoices |-> getNextFood(grown, gameDimension),
                        gameSpeed |-> speed,
                        speedInfo |-> IF step THEN RatFloor(speed)
                                      ELSE speedInfo]
                  ELSE [adv |-> "grew", snake |-> grown,
                        foodBuffer |-> buffer - 1, scoreBase |-> scoreBase,
                        score |-> score, foodChoices |-> {foodRef},
                        gameSpeed |-> gameSpeed, speedInfo |-> speedInfo]
             ELSE [adv |-> "moved", snake |-> shifted, foodBuffer |-> buffer,
                   scoreBase |-> scoreBase, score |-> score,
                   foodChoices |-> {foodRef}, gameSpeed |-> gameSpeed,
                   speedInfo |-> speedInfo]

\* playGame() called while gameRunning.current is true, by a closure created
\* when gameOver was go: one updatePlayer, then one setTimeout.  tm, paused,
\* dir are what the calling handler left in timers, gamePaused and direction;
\* op and req go to the history.
playGame(go, dir, tm, paused, op, req) ==
  \E r \in {updatePlayer(dir)} :
    LET collided == r.adv = "collided"
        tm1 == IF collided /\ go /\ timeoutId THEN ClearLatest(tm) ELSE tm
    IN /\ ticks < MaxTicks
       /\ ticks' = ticks + 1
       /\ CanSchedule(tm1)
       /\ snake' = r.snake
       /\ foodRef' \in r.foodChoices
       /\ foodBuffer' = r.foodBuffer
       /\ scoreBase' = r.scoreBase
       /\ score' = r.score
       /\ gameSpeed' = r.gameSpeed
       /\ speedInfo' = r.speedInfo
       /\ gameRunning' = ~collided
       /\ gameRunningState' = ~collided
       /\ gameOver' = (collided \/ gameOver)
       /\ gamePaused' = paused
       /\ direction' = dir
       /\ nextDirection' = dir
       /\ timers' = Schedule(tm1, go)
       /\ timeoutId' = TRUE
       /\ last' = [op |-> op, adv |-> r.adv, req |-> req]
       /\ UNCHANGED <<gameDimension, profile>>

\* --------------------------------------------------------------- handlers
Init ==
  /\ gameDimension \in 1..MaxDim
  /\ profile \in Profiles
  /\ snake = getInitialPlayer(gameDimension)
  /\ foodRef \in getNextFood(snake, gameDimension)
  /\ direction = "Up"
  /\ nextDirection = "Up"
  /\ foodBuffer = 0
  /\ scoreBase = 0
  /\ score = 0
  /\ gameSpeed = Rat(gameSpeedSettings.initialSpeed, 1)
  /\ speedInfo = gameSpeedSettings.initialSpeed
  /\ gameRunningState = FALSE
  /\ gamePaused = FALSE
  /\ gameOver = FALSE
  /\ gameRunning = FALSE
  /\ timeoutId = FALSE
  /\ timers = NoTimers
  /\ ticks = 0
  /\ last = [op |-> "mount", adv |-> "none", req |-> "None"]

\* The New Game button, rendered only while gameOver.
newGame ==
  /\ gameOver
  /\ snake' = getInitialPlayer(gameDimension)
  /\ foodRef' \in getNextFood(snake', gameDimension)
  /\ gameOver' = FALSE
  /\ nextDirection' = "Up"
  /\ direction' = "Up"
  /\ gameSpeed' = Rat(gameSpeedSettings.initialSpeed, 1)
  /\ score' = 0
  /\ scoreBase' = 0
  /\ foodBuffer' = 0
  /\ last' = [op |-> "newGame", adv |-> "none", req |-> "None"]
  /\ UNCHANGED <<gameDimension, profile, speedInfo, gameRunningState,
                 gamePaused, gameRunning, timeoutId, timers, ticks>>

\* pauseStartGame and the gameRunningState effect it triggers.
pauseStartGame(op) ==
  LET paused == ~gamePaused /\ gameRunningState
  IN IF ~gameRunningState
     THEN playGame(gameOver, direction, timers, paused, op, "None")
     ELSE /\ gameRunningState' = FALSE
          /\ gameRunning' = FALSE
          /\ gamePaused' = paused
          /\ last' = [op |-> op, adv |-> "none", req |-> "None"]
          /\ UNCHANGED <<gameDimension, profile, snake, foodRef, direction,
                         nextDirection, foodBuffer, scoreBase, score,
                         gameSpeed, speedInfo, gameOver, timeoutId, timers,
                         ticks>>

\* The Start / Pause / Continue button, rendered only while not gameOver.
ToggleButton == ~gameOver /\ pauseStartGame("toggle")

\* The space key (keyCode 32) on the board.
SpaceKey == pauseStartGame("toggle")

\* A mouse-down outside the board.
pauseClickOut ==
  /\ gamePaused' = TRUE
  /\ gameRunningState' = FALSE
  /\ gameRunning' = FALSE
  /\ last' = [op |-> "clickOut", adv |-> "none", req |-> "None"]
  /\ UNCHANGED <<gameDimension, profile, snake, foodRef, direction,
                 nextDirection, foodBuffer, scoreBase, score, gameSpeed,
                 speedInfo, gameOver, timeoutId, timers, ticks>>

\* Mutant of updateDirection: the pending timeout is cleared before the
\* direction is validated.
updateDirectionClearsFirst(key) ==
  IF gameRunning
  THEN LET d == directionUpdate(key, direction)
           tm == IF timeoutId THEN ClearLatest(timers) ELSE timers
       IN IF validateDirection(d, direction)
          THEN playGame(gameOver, d, tm, gamePaused, "key", key)
          ELSE /\ timers' = tm
               /\ last' = [op |-> "keyRejected", adv |-> "none", req |-> key]
               /\ UNCHANGED <<gameDimension, profile, snake, foodRef,
                              direction, nextDirection, foodBuffer, scoreBase,
                              score, gameSpeed, speedInfo, gameRunningState,
                              gamePaused, gameOver, gameRunning, timeoutId,
                              ticks>>
  ELSE UNCHANGED vars

\* Any key but space on the board.  The playGame it calls was created in the
\* render that started the game, whose gameOver is the current one.
updateDirection(key) ==
  IF gameRunning
  THEN LET d == directionUpdate(key, direction)
       IN IF validateDirection(d, direction)
          THEN playGame(gameOver, d,
                        IF timeoutId THEN ClearLatest(timers) ELSE timers,
                        gamePaused, "key", key)
          ELSE /\ last' = [op |-> "keyRejected", adv |-> "none", req |-> key]
               /\ UNCHANGED <<gameDimension, profile, snake, foodRef,
                              direction, nextDirection, foodBuffer, scoreBase,
                              score, gameSpeed, speedInfo, gameRunningState,
                              gamePaused, gameOver, gameRunning, timeoutId,
                              timers, ticks>>
  ELSE UNCHANGED vars

KeyDown == \E key \in Keys : updateDirection(key)

\* Mutant of TimeoutCallback: the callback calls playGame without testing
\* gameRunning.current.
TimeoutCallbackUnguarded(go, tm) ==
  playGame(go, direction, tm, gamePaused, "timer", "None")

\* The body of a timeout's callback, of a closure created when gameOver was
\* go; tm are the timeouts still pending when it runs.
TimeoutCallback(go, tm) ==
  IF gameRunning
  THEN playGame(go, direction, tm, gamePaused, "timer", "None")
  ELSE /\ timers' = (IF timeoutId THEN ClearLatest(tm) ELSE tm)
       /\ last' = [op |-> "timer", adv |-> "none", req |-> "None"]
       /\ UNCHANGED <<gameDimension, profile, snake, foodRef, direction,
                      nextDirection, foodBuffer, scoreBase, score, gameSpeed,
                      speedInfo, gameRunningState, gamePaused, gameOver,
                      gameRunning, timeoutId, ticks>>

\* The timeout timeoutId.current names fires.
FireLatest ==
  /\ timers.latest
  /\ TimeoutCallback(timers.latestOver, ClearLatest(timers))

\* A superseded timeout fires.
FireStale ==
  \E g \in BOOLEAN :
    /\ timers.stale[g] > 0
    /\ TimeoutCallback(g, [timers EXCEPT !.stale[g] = @ - 1])

Next ==
  \/ newGame
  \/ ToggleButton
  \/ SpaceKey
  \/ pauseClickOut
  \/ KeyDown
  \/ FireLatest
  \/ FireStale

Spec == Init /\ [][Next]_vars

\* ------------------------------------------------------------------ mount
\* Raw values of the optional props: omitted, below, at and above each limit
\* the validation tests.
RawGrowth == {<<>>, <<-1>>, <<0>>, <<1>>, <<3>>}
RawInitialSpeed == {<<>>, <<0>>, <<100>>, <<101>>, <<999>>, <<1000>>}
RawDecreaseRate == {<<>>, <<-1>>, <<0>>, <<1>>, <<10>>, <<11>>}
RawFoodQuantity == {<<>>, <<-1>>, <<0>>, <<1>>, <<3>>}
RawMinSpeed == {<<>>, <<-1>>, <<0>>, <<1>>, <<100>>, <<101>>, <<249>>,
                <<250>>, <<998>>, <<999>>}

\* Raw props: the props validated together vary together, the others are
\* omitted.
RawProfiles ==
  { [expansionRate |-> e, foodPoints |-> f, initialSpeed |-> i,
     speedDecreaseRate |-> r, speedFoodQuantity |-> q, minSpeed |-> m] :
      <<e, f, i, r, q, m>> \in
        (RawGrowth \X RawGrowth \X {<<>>} \X {<<>>} \X {<<>>} \X {<<>>})
        \cup ({<<>>} \X {<<>>} \X RawInitialSpeed \X {<<>>} \X {<<>>}
              \X RawMinSpeed)
        \cup ({<<>>} \X {<<>>} \X {<<>>} \X RawDecreaseRate
              \X RawFoodQuantity \X {<<>>}) }

\* The component is about to be rendered for the first time with some props.
MountInit ==
  /\ gameDimension \in 1..MaxDim
  /\ profile \in RawProfiles
  /\ snake = <<>>
  /\ foodRef = Cell(0, 0)
  /\ direction = "Up"
  /\ nextDirection = "Up"
  /\ foodBuffer = 0
  /\ scoreBase = 0
  /\ score = 0
  /\ gameSpeed = Rat(0, 1)
  /\ speedInfo = 0
  /\ gameRunningState = FALSE
  /\ gamePaused = FALSE
  /\ gameOver = FALSE
  /\ gameRunning = FALSE
  /\ timeoutId = FALSE
  /\ timers = NoTimers
  /\ ticks = 0
  /\ last = [op |-> "unmounted", adv |-> "none", req |-> "None"]

\* The first render: the props are validated and the states and refs get
\* their initial values.  getNextFood returning no cell is the render never
\* ending.
Mount ==
  /\ last.op = "unmounted"
  /\ snake' = getInitialPlayer(gameDimension)
  /\ foodRef' \in getNextFood(snake', gameDimension)
  /\ gameSpeed' = Rat(gameSpeedSettings.initialSpeed, 1)
  /\ speedInfo' = gameSpeedSettings.initialSpeed
  /\ last' = [op |-> "mount", adv |-> "none", req |-> "None"]
  /\ UNCHANGED <<gameDimension, profile, direction, nextDirection, foodBuffer,
                 scoreBase, score, gameRunningState, gamePaused, gameOver,
                 gameRunning, timeoutId, timers, ticks>>

MountSpec == MountInit /\ [][Mount]_vars

\* ----------------------------------------------------------------- claims
InBoard(c, dim) == 0 <= c.x /\ c.x < dim /\ 0 <= c.y /\ c.y < dim

Opposite(d) ==
  CASE d = "Up" -> "Down" [] d = "Down" -> "Up"
    [] d = "Left" -> "Right" [] d = "Right" -> "Left"

Perpendicular(d1, d2) == d1 # d2 /\ d1 # Opposite(d2)

\* This step called updatePlayer.
Advanced == ticks' = ticks + 1

\* C1: on a board of dimension >= 3, while the game is running every snake
\* segment lies inside the board.
C1_SegmentsInBoard ==
  (gameDimension >= 3 /\ gameRunningState) =>
    \A i \in 1..Len(snake) : InBoard(snake[i], gameDimension)

\* The running snake has just advanced along the top wall.
C1_Witness ==
  /\ gameDimension >= 3
  /\ gameRunningState
  /\ last.adv = "moved"
  /\ snake[1].y = 0
  /\ snake[2].y = 0

\* C2: no two snake segments occupy the same cell.
C2_SegmentsDistinct ==
  \A i, j \in 1..Len(snake) : i # j => snake[i] # snake[j]

\* A grown snake has just collided with itself and had its head put back.
C2_Witness ==
  /\ last.adv = "collided"
  /\ Len(snake) > 3
  /\ \E i \in 2..Len(snake) : snake[i] = MoveHead(snake[1], direction)

\* C3: whenever food has just been placed (at mount, by newGame, by a tick
\* that ate), it lies inside the board and on no segment of the snake as the
\* tick left it.
C3_FoodPlacedFree ==
  (last.op \in {"mount", "newGame"} \/ last.adv = "ate") =>
    /\ InBoard(foodRef, gameDimension)
    /\ \A i \in 1..Len(snake) : snake[i] # foodRef

\* Food has just been placed by a tick that ate and appended a segment.
C3_Witness == last.adv = "ate" /\ Len(snake) > 3

\* C4 as stated: the tick that moves the head onto the food cell increases
\* the food count by 1, sets the score to count * points, credits the growth
\* and places a new food.
C4_EatenOnArrival ==
  [][ (Advanced /\ last'.adv # "collided" /\ snake'[1] = foodRef)
      => /\ scoreBase' = scoreBase + 1
         /\ score' = scoreBase' * gameFoodPoints
         /\ foodBuffer' \in {foodBuffer + foodExpansion,
                             foodBuffer + foodExpansion - 1}
         /\ foodRef' # foodRef ]_vars

\* C4 amended: food is eaten by the non-colliding tick that begins with the
\* head on the food cell, one tick after the head moved onto it.  After that
\* tick the count is one higher, the score is count * points, foodBuffer has
\* been credited with foodExpansion (one unit of it consumed by the tick's
\* own append) and a new food lies on a free cell; no other tick changes the
\* count or the food, so the tick that moves the head onto the food eats
\* nothing.
C4_EatenOnNextTick ==
  [][ /\ (Advanced /\ last'.adv # "collided" /\ snake[1] = foodRef)
         => /\ last'.adv = "ate"
            /\ scoreBase' = scoreBase + 1
            /\ score' = scoreBase' * gameFoodPoints
            /\ foodBuffer' = foodBuffer + foodExpansion - 1
            /\ foodRef' # foodRef
            /\ foodRef' \in getNextFood(snake', gameDimension)
      /\ (Advanced /\ ~(last'.adv # "collided" /\ snake[1] = foodRef))
         => /\ last'.adv # "ate"
            /\ UNCHANGED <<scoreBase, score, foodRef>> ]_vars

\* A tick has just eaten in a game whose points per food are not 1.
C4_Witness == last.adv = "ate" /\ gameFoodPoints > 1 /\ score > 0

\* C5: a colliding tick leaves the snake as it was, ends the game, and
\* leaves score, food count, food cell and speed unchanged.
C5_CollisionReverts ==
  [][ (Advanced /\ last'.adv = "collided")
      => /\ snake' = snake
         /\ gameOver'
         /\ ~gameRunningState'
         /\ ~gameRunning'
         /\ UNCHANGED <<score, scoreBase, foodRef, gameSpeed>> ]_vars

\* A tick has just collided with the wall ahead of the head.
C5_Witness ==
  /\ last.adv = "collided"
  /\ gameOver
  /\ ~InBoard(MoveHead(snake[1], direction), gameDimension)

\* C6 as stated: a requested direction is rejected iff it is the exact
\* opposite of the current one (so the current direction itself is accepted).
C6_RejectsOnlyOpposite ==
  [][ (last'.op \in {"key", "keyRejected"} /\ last'.req \in PlayDirection)
      => ((last'.op = "key") <=> (last'.req # Opposite(direction))) ]_vars

\* C6 amended: a requested direction is accepted iff it is perpendicular to
\* the current one; the opposite direction and the current direction itself
\* are both rejected.
C6_AcceptsOnlyPerpendicular ==
  [][ (last'.op \in {"key", "keyRejected"} /\ last'.req \in PlayDirection)
      => /\ (last'.op = "key") <=> Perpendicular(last'.req, direction)
         /\ (last'.op = "key") <=> validateDirection(last'.req, direction)
         /\ (last'.op = "key") => direction' = last'.req ]_vars

\* A key asking for the current direction has just been rejected.
C6_Witness == last.op = "keyRejected" /\ last.req = direction

\* C7 as stated: a tick keeps the length or adds 1, and adds 1 only if
\* foodBuffer was > 0 before the tick.
C7_GrowthOnlyIfPending ==
  [][ Advanced
      => \/ Len(snake') = Len(snake)
         \/ (Len(snake') = Len(snake) + 1 /\ foodBuffer > 0) ]_vars

\* C7 amended: a tick keeps the length or adds 1, and adds 1 only if
\* foodBuffer was > 0 before the tick or the tick began with the head on the
\* food cell (which credits foodBuffer before the growth test).
C7_GrowthOnlyIfPendingOrEating ==
  [][ Advanced
      => \/ Len(snake') = Len(snake)
         \/ /\ Len(snake') = Len(snake) + 1
            /\ (foodBuffer > 0 \/ snake[1] = foodRef) ]_vars

\* A tick has just grown the snake out of an empty foodBuffer.
C7_Witness ==
  /\ last.adv = "ate"
  /\ foodBuffer = foodExpansion - 1
  /\ Len(snake) = 4

\* C8: growth accounting.  foodBuffer is never negative; while the game is
\* not over, length + foodBuffer = 3 + foodExpansion * foods eaten; every
\* non-colliding tick that finds growth pending appends exactly one segment,
\* at the cell the old tail left, and takes exactly one unit from foodBuffer;
\* a tick that finds none pending keeps the length.
C8_GrowthAccounting ==
  /\ [](foodBuffer >= 0)
  /\ [](~gameOver => Len(snake) + foodBuffer = 3 + foodExpansion * scoreBase)
  /\ [][ Advanced =>
           LET credited == IF snake[1] = foodRef
                           THEN foodBuffer + foodExpansion ELSE foodBuffer
           IN /\ (last'.adv # "collided" /\ credited > 0)
                 => /\ Len(snake') = Len(snake) + 1
                    /\ snake'[Len(snake')] = snake[Len(snake)]
                    /\ foodBuffer' = credited - 1
              /\ (last'.adv # "collided" /\ credited = 0)
                 => /\ Len(snake') = Len(snake)
                    /\ foodBuffer' = 0 ]_vars

\* One food with foodExpansion = 2 has been fully turned into two segments.
C8_Witness ==
  /\ foodExpansion = 2
  /\ scoreBase = 1
  /\ last.adv = "grew"
  /\ foodBuffer = 0
  /\ Len(snake) = 5

\* C9: gameSpeed is never below minSpeed; except by newGame it never
\* increases, and it changes only on a tick that eats and brings the food
\* count to a multiple of speedFoodQuantity.
C9_SpeedMonotone ==
  /\ [](~RatLess(gameSpeed, Rat(gameSpeedSettings.minSpeed, 1)))
  /\ [][ last'.op # "newGame"
         => /\ ~RatLess(gameSpeed, gameSpeed')
            /\ ~RatEq(gameSpeed', gameSpeed)
               => /\ Advanced
                  /\ last'.adv = "ate"
                  /\ scoreBase' % gameSpeedSettings.speedFoodQuantity = 0 ]_vars

\* A second speed step has just been floored at minSpeed.
C9_Witness ==
  /\ last.adv = "ate"
  /\ scoreBase = 2
  /\ gameSpeedSettings.speedFoodQuantity = 1
  /\ RatEq(gameSpeed, Rat(gameSpeedSettings.minSpeed, 1))

\* C10: once the game is over, the pause/start toggle (space key or button)
\* does nothing: no advance, no timeout scheduled, no engine field changed.
C10_ToggleInertWhenOver ==
  [][ (gameOver /\ last'.op = "toggle")
      => /\ ticks' = ticks
         /\ timers' = timers
         /\ UNCHANGED <<snake, foodRef, direction, foodBuffer, scoreBase,
                        score, gameSpeed, gameOver, gameRunningState,
                        gameRunning>> ]_vars

\* C11: a key whose direction validateDirection rejects, or that is pressed
\* while the game is not running, changes nothing of the engine: direction,
\* snake, food, score, food count, speed, foodBuffer, the run flags and the
\* pending timeouts all keep their values, and updatePlayer is not called.
C11_IgnoredKeyChangesNothing ==
  [][ ( /\ last'.op \in {"key", "keyRejected"}
        /\ \/ ~gameRunningState
           \/ ~validateDirection(directionUpdate(last'.req, direction),
                                 direction) )
      => UNCHANGED <<direction, nextDirection, snake, foodRef, score,
                     scoreBase, gameSpeed, speedInfo, foodBuffer, timers,
                     timeoutId, gameRunningState, gamePaused, gameOver,
                     gameRunning, ticks>> ]_vars

\* The opposite direction has just been rejected with a timeout pending.
C11_Witness ==
  /\ last.op = "keyRejected"
  /\ last.req = Opposite(direction)
  /\ gameRunningState
  /\ timers.latest

\* C12: an accepted direction key pressed while running calls updatePlayer
\* exactly once, in the requested direction, and leaves no superseded timeout
\* pending and exactly one timeout pending: none if the advance collided.
C12_AcceptedKeyReschedules ==
  [][ last'.op = "key"
      => /\ ticks' = ticks + 1
         /\ direction' = last'.req
         /\ StaleCount(timers') = 0
         /\ timers'.latest <=> (last'.adv # "collided") ]_vars

\* C13: right after newGame the component is in the fresh initial state: the
\* initial snake, food on a free cell, direction Up, score, food count and
\* foodBuffer 0, gameSpeed and the displayed speedInfo both initialSpeed, and
\* neither running, paused nor over.
C13_NewGameFresh ==
  last.op = "newGame"
  => /\ snake = getInitialPlayer(gameDimension)
     /\ foodRef \in getNextFood(snake, gameDimension)
     /\ direction = "Up"
     /\ nextDirection = "Up"
     /\ score = 0
     /\ scoreBase = 0
     /\ foodBuffer = 0
     /\ gameSpeed = Rat(gameSpeedSettings.initialSpeed, 1)
     /\ speedInfo = gameSpeedSettings.initialSpeed
     /\ ~gameRunningState
     /\ ~gamePaused
     /\ ~gameOver

\* C14: gamePaused becomes true only in a step taken while running, and a
\* mouse-down outside the board while the game is not running (idle or over)
\* leaves gamePaused, gameRunningState and gameOver as they were.
C14_PausedOnlyFromRunning ==
  [][ /\ (~gamePaused /\ gamePaused') => gameRunningState
      /\ (last'.op = "clickOut" /\ ~gameRunningState)
         => UNCHANGED <<gamePaused, gameRunningState, gameOver>> ]_vars

\* C15: for every raw configuration the validated value of each prop is the
\* raw value when that lies in its range (expansionRate >= 1, foodPoints
\* >= 1, 100 < initialSpeed < 1000, 0 <= speedDecreaseRate <= 10 with 0
\* included, speedFoodQuantity >= 1, 0 < minSpeed < validated initialSpeed),
\* and the default (1, 1, 250, 1, 10, 50) when it is omitted or out of
\* range; and 0 < minSpeed < initialSpeed always.
C15_ValidatedConfig ==
  last.op = "mount"
  => LET p == profile
         s == gameSpeedSettings
         Pick(raw, ok(_), default) ==
           IF Given(raw) /\ ok(raw[1]) THEN raw[1] ELSE default
         AtLeastOne(v) == v >= 1
         SpeedRange(v) == 100 < v /\ v < 1000
         RateRange(v) == 0 <= v /\ v <= 10
         MinRange(v) == 0 < v /\ v < s.initialSpeed
     IN /\ foodExpansion = Pick(p.expansionRate, AtLeastOne, 1)
        /\ gameFoodPoints = Pick(p.foodPoints, AtLeastOne, 1)
        /\ s.initialSpeed = Pick(p.initialSpeed, SpeedRange, 250)
        /\ s.speedDecreaseRate = Pick(p.speedDecreaseRate, RateRange, 1)
        /\ s.speedFoodQuantity = Pick(p.speedFoodQuantity, AtLeastOne, 10)
        /\ s.minSpeed = Pick(p.minSpeed, MinRange, 50)
        /\ 0 < s.minSpeed
        /\ s.minSpeed < s.initialSpeed
        /\ gameSpeed = Rat(s.initialSpeed, 1)
        /\ speedInfo = s.initialSpeed

\* C16: food placement always ends.  The first render, which places the
\* first food, can always complete (with a food cell, or with a board-full
\* outcome when no cell is free), and the cell it places is a free cell of
\* the board.
C16_FoodPlacementTerminates ==
  /\ last.op = "unmounted" => ENABLED Mount
  /\ last.op = "mount"
     => /\ InBoard(foodRef, gameDimension)
        /\ foodRef \notin Cells(snake)

\* C17: for every board dimension from 1 up, the snake created by the first
\* render and by newGame has exactly 3 segments, the head first and the
\* body below it, and every segment lies inside the board.
C17_InitialSnakeInBoard ==
  last.op \in {"mount", "newGame"}
  => /\ Len(snake) = 3
     /\ snake[2] = Cell(snake[1].x, snake[1].y + 1)
     /\ snake[3] = Cell(snake[1].x, snake[1].y + 2)
     /\ \A i \in 1..Len(snake) : InBoard(snake[i], gameDimension)

\* C19: at most one timeout is pending in every reachable state: the one
\* timeoutId.current names, and no superseded one that could still fire and
\* call playGame.
C19_AtMostOneTimeout ==
  (IF timers.latest THEN 1 ELSE 0) + StaleCount(timers) <= 1

\* C20: whenever the game is paused (gamePaused and not running) or over,
\* no timeout is pending.
C20_NoTimeoutWhenPausedOrOver ==
  ((gamePaused /\ ~gameRunningState) \/ gameOver)
  => (~timers.latest /\ StaleCount(timers) = 0)

\* Timeouts pending: the latest one and the superseded ones.
PendingCount(tm) == (IF tm.latest THEN 1 ELSE 0) + StaleCount(tm)

\* C21: a timeout that fires while the game is not running calls no
\* updatePlayer, leaves snake, food, direction, score, food count, speed,
\* foodBuffer and the run flags unchanged, and schedules nothing: the fired
\* timeout is gone and no new one is pending.
C21_StrayTimeoutIsNoOp ==
  [][ (last'.op = "timer" /\ ~gameRunningState)
      => /\ ticks' = ticks
         /\ last'.adv = "none"
         /\ PendingCount(timers') < PendingCount(timers)
         /\ UNCHANGED <<snake, foodRef, direction, nextDirection, score,
                        scoreBase, gameSpeed, speedInfo, foodBuffer,
                        gameRunningState, gamePaused, gameOver,
                        gameRunning>> ]_vars

\* A timeout left pending by a pause has just fired and done nothing.
C21_Witness ==
  /\ last.op = "timer"
  /\ last.adv = "none"
  /\ gamePaused
  /\ ~gameRunningState
  /\ ~gameOver
  /\ ticks > 0

\* C22: a call of updatePlayer ends the game (game over, not running) if and
\* only if the cell one step ahead of the head, in the direction of the
\* call, is outside the board or is the cell of a segment other than the
\* head before the move, the last segment included; otherwise the game is
\* running and not over after it.
C22_CollisionIff ==
  [][ Advanced
      => LET ahead == MoveHead(snake[1], direction')
             hit == \/ ~InBoard(ahead, gameDimension)
                    \/ \E i \in 2..Len(snake) : snake[i] = ahead
         IN /\ hit <=> (last'.adv = "collided")
            /\ hit => (gameOver' /\ ~gameRunningState' /\ ~gameRunning')
            /\ ~hit => (~gameOver' /\ gameRunningState' /\ gameRunning') ]_vars

\* The head has just been stopped by the cell of the last segment.
C22_Witness ==
  /\ last.adv = "collided"
  /\ gameOver
  /\ Len(snake) > 3
  /\ MoveHead(snake[1], direction) = snake[Len(snake)]

\* C23: a call of updatePlayer that does not collide, finds foodBuffer 0 and
\* the head off the food cell leaves the snake as the moved head followed by
\* the old segments but the last, in order; the old last cell is freed; and
\* length, score, food count, food cell, speed and foodBuffer are unchanged.
C23_PlainMoveShifts ==
  [][ ( /\ Advanced
        /\ last'.adv # "collided"
        /\ foodBuffer = 0
        /\ snake[1] # foodRef )
      => /\ last'.adv = "moved"
         /\ Len(snake') = Len(snake)
         /\ snake'[1] = MoveHead(snake[1], direction')
         /\ \A i \in 2..Len(snake) : snake'[i] = snake[i - 1]
         /\ snake[Len(snake)] \notin Cells(snake')
         /\ UNCHANGED <<score, scoreBase, foodRef, gameSpeed, speedInfo,
                        foodBuffer>> ]_vars

\* A grown snake has just made a plain move after a turn.
C23_Witness ==
  /\ last.adv = "moved"
  /\ Len(snake) > 3
  /\ foodBuffer = 0
  /\ snake[2].x # snake[Len(snake)].x
  /\ snake[2].y # snake[Len(snake)].y

\* C24 as stated: direction.current is always the direction of the last
\* applied move (the head lies one step from the second segment in that
\* direction), and no call of updatePlayer moves the head onto the cell of
\* the second segment.
C24_DirectionIsLastMove ==
  /\ [](snake[1] = MoveHead(snake[2], direction))
  /\ [][ Advanced => MoveHead(snake[1], direction') # snake[2] ]_vars

\* C24 amended: no call of updatePlayer moves the head onto the cell of the
\* second segment, and while the game is not over direction.current is the
\* direction of the last applied move (or the initial Up).  After an accepted
\* key whose advance collides, direction.current is the requested direction
\* although the head was put back; the game is then over.
C24_NeverIntoNeck ==
  /\ [](~gameOver => snake[1] = MoveHead(snake[2], direction))
  /\ [][ Advanced => MoveHead(snake[1], direction') # snake[2] ]_vars

\* An accepted key has just turned and advanced the snake a second time.
C24_Witness ==
  /\ last.op = "key"
  /\ last.adv # "collided"
  /\ direction = "Down"
  /\ snake[1] = MoveHead(snake[2], direction)
  /\ snake[2] # MoveHead(snake[3], direction)

\* C25 as stated: in every reachable state the food cell is the cell of no
\* segment after the head.  The head comes to lie on the food cell only by a
\* call of updatePlayer that moves it onto the food already there, and the
\* next call of updatePlayer ends it.
C25_FoodOffBodyUntilAdvance ==
  /\ [](\A i \in 2..Len(snake) : snake[i] # foodRef)
  /\ [][ /\ (snake'[1] = foodRef' /\ snake[1] # foodRef)
            => /\ Advanced
               /\ foodRef' = foodRef
               /\ snake'[1] = MoveHead(snake[1], direction')
         /\ (snake[1] = foodRef /\ Advanced)
            => snake'[1] # foodRef' ]_vars

\* C25 amended: in every reachable state the food cell is the cell of no
\* segment after the head.  The head comes to lie on the food cell only by a
\* call of updatePlayer that moves it onto the food already there, and the
\* next call that does not collide ends it (that call eats and places a new
\* food off the snake); a call that collides puts the head back on the food
\* cell.
C25_FoodOffBody ==
  /\ [](\A i \in 2..Len(snake) : snake[i] # foodRef)
  /\ [][ /\ (snake'[1] = foodRef' /\ snake[1] # foodRef)
            => /\ Advanced
               /\ last'.adv # "collided"
               /\ foodRef' = foodRef
               /\ snake'[1] = MoveHead(snake[1], direction')
         /\ (snake[1] = foodRef /\ Advanced /\ last'.adv # "collided")
            => /\ last'.adv = "ate"
               /\ snake'[1] # foodRef'
               /\ foodRef' \notin Cells(snake') ]_vars

\* The head of a grown snake has just moved onto the second food.
C25_Witness ==
  /\ snake[1] = foodRef
  /\ last.adv \in {"moved", "grew"}
  /\ Len(snake) > 3
  /\ scoreBase = 1
====
